---- MODULE Spec2Model ----
(***************************************************************************)
(* Model of the Data Axle API tool.                                        *)
(* The rate-limited paginated client:                                      *)
(*   src/tools/api/base_api.py      check_rate_limit, make_request         *)
(*   src/tools/api/business_api.py  get_businesses, get_businesses_by_...  *)
(*   src/tools/api/consumer_api.py  get_consumers, get_consumers_by_...    *)
(*   src/tools/api/consumer_api.py  get_consumers_by_attributes, the       *)
(*                                  construction of its filter             *)
(* The polygon splitter:                                                   *)
(*   src/tools/geo_helpers/polygon_helper.py  split_polygon,               *)
(*                                            process_geojson              *)
(* The aggregate statistics:                                               *)
(*   src/tools/api/insights_api.py  calculate_median_from_frequencies,     *)
(*                                  calculate_home_ownership_rate,         *)
(*                                  calculate_affluence_score              *)
(* The file processors, extraction and GeoJSON export:                     *)
(*   src/tools/file_processors/kml_processor.py, kmz_processor.py          *)
(*                                                                         *)
(* Time is a mock clock counted in whole seconds.  Clock values are kept   *)
(* relative to a sliding epoch: once the clock reaches MaxTime every       *)
(* stored timestamp is shifted down instead (MaxTime >= window_duration,   *)
(* so every comparison the code makes keeps its outcome).                  *)
(***************************************************************************)
EXTENDS Integers, Sequences, FiniteSets, TLC

\* ---- program constants (base_api.py) ------------------------------------
window_duration == 10
retry_delay == 2

\* ---- bounds of the model ------------------------------------------------
\* request_limit is 150 in the source (base_api.py:12); the model runs the
\* same code with a small limit so that a full window can be enumerated.
request_limit == 3
MaxTime == 11
MaxTotal == 2
MaxPage == 2
MaxRetries == 2
MaxRequested == 2

None == -1

Records == {1, 2}
Variants == {"get_businesses", "get_businesses_by_category",
             "get_consumers", "get_consumers_by_attributes"}
Statuses == {200, 429, 500, 404}
Callers == {1, 2}

Min(a, b) == IF a < b THEN a ELSE b

RECURSIVE SeqsUpTo(_)
SeqsUpTo(n) == IF n = 0 THEN {<<>>}
               ELSE LET S == SeqsUpTo(n - 1)
                    IN  S \cup {Append(s, r) : s \in {t \in S : Len(t) = n - 1}, r \in Records}

\* pages the scroll endpoint may answer with (the empty page included)
Pages == SeqsUpTo(MaxPage)

VARIABLES
    now,                \* time.time()
    window_start_time,  \* base_api.py global
    request_counter,    \* base_api.py global
    sent_times,         \* times of the requests the server answered in the last window_duration seconds
    pc,                 \* position of the single caller
    caller,             \* "direct" or the retrieval variant that is running
    method,             \* "POST" | "GET" of the make_request call in progress
    has_polygon,        \* "polygon" in str(data) for the call in progress
    attempts,           \* HTTP attempts of the logical make_request call in progress
    ret,                \* value make_request handed back to its caller
    max_results,        \* argument of the retrieval (None = not given)
    total_count,        \* retrieval local
    target_count,       \* retrieval local
    results_retrieved,  \* retrieval local
    all_results,        \* retrieval local
    pages,              \* pages received so far, in order
    outcome,            \* how the retrieval ended: "none" | "returned" | "raised"
    result,             \* the list a retrieval returned
    posts_sent,         \* HTTP POST attempts of this retrieval
    gets_sent,          \* HTTP GET attempts of this retrieval
    n429,               \* 429 answers received by this retrieval
    last_status,        \* status of the latest HTTP answer (0 = none yet, -1 = no answer)
    cpc,                \* concurrent callers: position of each caller
    c_current_time,     \* concurrent callers: local current_time of check_rate_limit
    c_time_elapsed,     \* concurrent callers: local time_elapsed of check_rate_limit
    c_sleep_left,       \* concurrent callers: seconds left of a running time.sleep
    sent_in_window,     \* answered requests since window_start_time was last set
    overlapped,         \* two callers have been inside make_request at the same time
    gpc,                \* position of process_geojson
    max_points,         \* argument of process_geojson / split_polygon
    input_features,     \* type and properties of the features read so far, in order
    polys,              \* polygons of the current feature still to be split
    split_features,     \* list the latest split_polygon call of process_geojson returned
    output_count,       \* len(output_geojson['features'])
    stack,              \* call stack of split_polygon, innermost call last
    geo_outcome,        \* how process_geojson ended: "none" | "returned" | "raised"
    mpc,                \* position of the caller of the aggregation helpers
    frequencies,        \* argument of calculate_median_from_frequencies / calculate_home_ownership_rate
    median,             \* four times what calculate_median_from_frequencies returned
    median_before,      \* the same for the list before it was reordered
    rate,               \* what calculate_home_ownership_rate returned, as <<numerator, denominator>>
    spc,                \* position of calculate_affluence_score
    responses,          \* what the distribution fetches returned so far, in call order
    median_income,      \* local of calculate_affluence_score
    median_home_value,  \* local of calculate_affluence_score
    median_wealth,      \* local of calculate_affluence_score
    home_ownership_rate, \* local of calculate_affluence_score, in hundredths
    score,              \* a hundred times what calculate_affluence_score returned
    score_outcome,      \* how calculate_affluence_score ended: "none" | "returned" | "raised"
    xpc,                \* position of process_file
    file_type,          \* "kmz" | "kml": the processor module in use
    placemark_info,     \* records the extraction returned
    record_index,       \* records the loop of export_to_geojson has gone through
    features,           \* local of export_to_geojson: positions of the records it holds a Feature for
    output_file,        \* the GeoJSON file: whether it was written, and its features
    export_result,      \* what export_to_geojson returned: "none" | "True" | "False"
    epc,                \* position of extract_placemarks_from_kmz: "idle" | "loop" | "returned" | "raised"
    kmz_file,           \* the file at kmz_file_path
    placemarks,         \* Placemark elements the loop has gone through, in document order
    extracted,          \* local placemark_info of extract_placemarks_from_kmz, and what it returns
    bounds,             \* polygon.bounds in split_polygon: <<minx, miny, maxx, maxy>>
    divider,            \* local of split_polygon: the two ends of the cutting line, coordinates doubled
    coords,             \* local of split_polygon: list(polygon.exterior.coords)
    step,               \* local of split_polygon
    reduced_coords,     \* local of split_polygon
    attributes,         \* argument of get_consumers_by_attributes: its items, in the order of the dict
    propositions        \* local of get_consumers_by_attributes

rate_vars == <<now, window_start_time, request_counter, sent_times>>
call_vars == <<method, has_polygon, attempts, ret>>
retr_vars == <<max_results, total_count, target_count, results_retrieved,
               all_results, pages, outcome, result>>
count_vars == <<posts_sent, gets_sent, n429, last_status>>
conc_vars == <<cpc, c_current_time, c_time_elapsed, c_sleep_left, sent_in_window, overlapped>>
single_vars == <<pc, caller, call_vars, retr_vars, count_vars>>
geo_vars == <<gpc, max_points, input_features, polys, split_features, output_count,
              stack, geo_outcome>>
agg_vars == <<mpc, frequencies, median, median_before, rate>>
score_vars == <<spc, responses, median_income, median_home_value, median_wealth,
                home_ownership_rate, score, score_outcome>>
file_vars == <<xpc, file_type, placemark_info, record_index, features, output_file,
               export_result, epc, kmz_file, placemarks, extracted>>
cut_vars == <<bounds, divider, coords, step, reduced_coords>>
filter_vars == <<attributes, propositions>>
local_vars == <<geo_vars, agg_vars, score_vars, file_vars, cut_vars, filter_vars>>
vars == <<rate_vars, pc, caller, call_vars, retr_vars, count_vars, conc_vars, local_vars>>

NoRet == [kind |-> "none", count |-> 0, page |-> <<>>]
PyNone == [kind |-> "None", count |-> 0, page |-> <<>>]
Raised == [kind |-> "raised", count |-> 0, page |-> <<>>]
Falsy == [kind |-> "falsy", count |-> 0, page |-> <<>>]
Dict(c) == [kind |-> "dict", count |-> c, page |-> <<>>]
List(p) == [kind |-> "list", count |-> 0, page |-> p]

\* calculate_home_ownership_rate has not returned
NoRate == <<0, 0>>

\* response.json() of a 200 answer: the scan endpoint answers a POST with
\* {count, scroll_id} (or an empty body), a scroll GET with an array.
Bodies(m) == IF m = "POST" THEN {Falsy} \cup {Dict(c) : c \in 0..MaxTotal}
             ELSE {List(p) : p \in Pages}

\* variant: whatever make_request returned counts as a page
Truthy_AnyAnswer(r) == TRUE

\* variant: an empty list is not told apart from a page
Truthy_EmptyListPasses(r) == r.kind \in {"dict", "list"}

\* Python truthiness of what make_request returned
Truthy(r) == \/ r.kind = "dict"
             \/ r.kind = "list" /\ Len(r.page) > 0

\* nothing of polygon_helper.py is running
GeoIdle ==
    /\ gpc = "idle"
    /\ max_points = 0
    /\ input_features = <<>>
    /\ polys = <<>>
    /\ split_features = <<>>
    /\ output_count = 0
    /\ stack = <<>>
    /\ geo_outcome = "none"
    /\ bounds = <<0, 0, 0, 0>>
    /\ divider = <<>>
    /\ coords = <<>>
    /\ step = 0
    /\ reduced_coords = <<>>

\* nothing of the API client is running
ApiIdle ==
    /\ now = 0
    /\ window_start_time = 0
    /\ request_counter = 0
    /\ sent_times = <<>>
    /\ pc = "idle"
    /\ caller = "none"
    /\ method = "none"
    /\ has_polygon = FALSE
    /\ attempts = 0
    /\ ret = NoRet
    /\ max_results = None
    /\ total_count = 0
    /\ target_count = 0
    /\ results_retrieved = 0
    /\ all_results = <<>>
    /\ pages = <<>>
    /\ outcome = "none"
    /\ result = <<>>
    /\ posts_sent = 0
    /\ gets_sent = 0
    /\ n429 = 0
    /\ last_status = 0
    /\ cpc = [c \in Callers |-> "idle"]
    /\ c_current_time = [c \in Callers |-> 0]
    /\ c_time_elapsed = [c \in Callers |-> 0]
    /\ c_sleep_left = [c \in Callers |-> 0]
    /\ sent_in_window = 0
    /\ overlapped = FALSE
    /\ attributes = <<>>
    /\ propositions = <<>>

\* no aggregation helper of insights_api.py has been called
AggIdle ==
    /\ mpc = "idle"
    /\ frequencies = <<>>
    /\ median = None
    /\ median_before = None
    /\ rate = NoRate

\* calculate_affluence_score has not been called
ScoreIdle ==
    /\ spc = "idle"
    /\ responses = <<>>
    /\ median_income = 0
    /\ median_home_value = 0
    /\ median_wealth = 0
    /\ home_ownership_rate = 0
    /\ score = None
    /\ score_outcome = "none"

\* no file has been written
NoFile == [exists |-> FALSE, features |-> <<>>]

\* process_file has not been called
FileIdle ==
    /\ xpc = "idle"
    /\ file_type = "none"
    /\ placemark_info = <<>>
    /\ record_index = 0
    /\ features = <<>>
    /\ output_file = NoFile
    /\ export_result = "none"
    /\ epc = "idle"
    /\ kmz_file = [exists |-> FALSE, archive |-> "none", kml_files |-> 0, markup |-> "none"]
    /\ placemarks = <<>>
    /\ extracted = <<>>

Init ==
    /\ ApiIdle
    /\ GeoIdle
    /\ AggIdle
    /\ ScoreIdle
    /\ FileIdle

\* ---- the clock ------------------------------------------------------------
\* seconds by which the epoch slides when the clock advances by d
Over(d) == IF now + d > MaxTime THEN now + d - MaxTime ELSE 0
Rebase(t, d) == IF t < Over(d) THEN 0 ELSE t - Over(d)
ClockAfter(d) == Min(now + d, MaxTime)

\* send times that are still within window_duration of the clock value t
Recent(s, t) == SelectSeq(s, LAMBDA x : t - x < window_duration)
RebaseLog(s, d) == Recent([i \in DOMAIN s |-> Rebase(s[i], d)], ClockAfter(d))

\* time passes between two statements of the caller
Tick ==
    /\ now' = ClockAfter(1)
    /\ window_start_time' = Rebase(window_start_time, 1)
    /\ sent_times' = RebaseLog(sent_times, 1)
    /\ UNCHANGED <<request_counter, pc, caller, call_vars, retr_vars, count_vars, conc_vars, local_vars>>

\* ---- base_api.py: check_rate_limit ---------------------------------------
WindowPassed(time_elapsed) == time_elapsed >= window_duration

\* variant: the gate closes one request too late
LimitReached_OffByOne(counter) == counter > request_limit

\* variant: the gate never finds the limit reached
LimitReached_Never(counter) == FALSE

LimitReached(counter) == counter >= request_limit

\* check_rate_limit as the single caller runs it, the sleep included
CheckRateLimit ==
    /\ pc = "check"
    /\ LET current_time == now
           time_elapsed == current_time - window_start_time
           sleep_time   == window_duration - time_elapsed
       IN  IF WindowPassed(time_elapsed)
           THEN /\ request_counter' = 0
                /\ window_start_time' = current_time
                /\ UNCHANGED <<now, sent_times>>
           ELSE IF LimitReached(request_counter) /\ sleep_time > 0
           THEN /\ now' = ClockAfter(sleep_time)
                /\ sent_times' = RebaseLog(sent_times, sleep_time)
                /\ request_counter' = 0
                /\ window_start_time' = now'
           ELSE UNCHANGED rate_vars
    /\ pc' = "send"
    /\ UNCHANGED <<caller, call_vars, retr_vars, count_vars, conc_vars, local_vars>>

\* ---- base_api.py: make_request -------------------------------------------
\* the log of the answered requests of the last window, the one sent now included;
\* request_limit + 1 entries are enough to see the limit exceeded
Logged(s, t) == LET r == Append(Recent(s, t), t)
                IN  IF Len(r) > request_limit + 1 THEN Tail(r) ELSE r

\* variant: a 500 answer is retried like a 429
OnStatus_Retry500(status, polygon_in_data) ==
    IF status = 200 THEN "json"
    ELSE IF status = 429 \/ status = 500 THEN "retry"
    ELSE "raise"

\* variant: every 500 answer is taken for a malformed polygon
OnStatus_NullOnAny500(status, polygon_in_data) ==
    IF status = 200 THEN "json"
    ELSE IF status = 429 THEN "retry"
    ELSE IF status = 500 THEN "null"
    ELSE "raise"

\* variant: no special case for a malformed polygon
OnStatus_RaiseOn500(status, polygon_in_data) ==
    IF status = 200 THEN "json"
    ELSE IF status = 429 THEN "retry"
    ELSE "raise"

\* what make_request does with an answer of the given status:
\* "json" return response.json(), "retry" sleep and call itself again,
\* "null" return None, "raise" raise Exception
OnStatus(status, polygon_in_data) ==
    IF status = 200 THEN "json"
    ELSE IF status = 429 THEN "retry"
    ELSE IF status = 500 /\ polygon_in_data THEN "null"
    ELSE "raise"

Bump(n, bounded) == IF bounded \/ n <= MaxRetries THEN n + 1 ELSE n

\* requests.request(...) and the handling of its outcome.  With bounded set
\* the server answers 429 at most MaxRetries times per retrieval.
Send(bounded) ==
    /\ pc = "send"
    /\ attempts' = Bump(attempts, bounded)
    /\ posts_sent' = IF caller \in Variants /\ method = "POST"
                     THEN Bump(posts_sent, bounded) ELSE posts_sent
    /\ gets_sent' = IF caller \in Variants /\ method = "GET"
                    THEN Bump(gets_sent, bounded) ELSE gets_sent
    /\ \/ \* requests.exceptions.RequestException: no answer, counter not touched
          /\ last_status' = -1
          /\ ret' = Raised
          /\ pc' = "ret"
          /\ UNCHANGED <<request_counter, n429, sent_times>>
       \/ \E status \in Statuses :
            /\ sent_times' = Logged(sent_times, now)
            /\ request_counter' = request_counter + 1
            /\ last_status' = status
            /\ bounded /\ status = 429 => n429 < MaxRetries
            /\ n429' = IF status = 429 THEN Bump(n429, bounded) ELSE n429
            /\ LET todo == OnStatus(status, has_polygon)
               IN  \/ /\ todo = "json"
                      /\ \E b \in Bodies(method) : ret' = b
                      /\ pc' = "ret"
                   \/ /\ todo = "retry"
                      /\ pc' = "retry_wait"
                      /\ ret' = ret
                   \/ /\ todo = "null"
                      /\ ret' = PyNone
                      /\ pc' = "ret"
                   \/ /\ todo = "raise"
                      /\ ret' = Raised
                      /\ pc' = "ret"
    /\ UNCHANGED <<now, window_start_time, caller, method, has_polygon, retr_vars, conc_vars, local_vars>>

SendBounded == Send(TRUE)
SendAny == Send(FALSE)

\* time.sleep(2), then make_request calls itself with the same arguments
RetryWait ==
    /\ pc = "retry_wait"
    /\ now' = ClockAfter(retry_delay)
    /\ window_start_time' = Rebase(window_start_time, retry_delay)
    /\ sent_times' = RebaseLog(sent_times, retry_delay)
    /\ pc' = "check"
    /\ UNCHANGED <<request_counter, caller, call_vars, retr_vars, count_vars, conc_vars, local_vars>>

\* ---- a caller that uses make_request directly (get_business_count, ...) --
DirectCall ==
    /\ pc = "idle"
    /\ \E m \in {"GET", "POST"}, hp \in BOOLEAN :
         /\ method' = m
         /\ has_polygon' = hp
    /\ caller' = "direct"
    /\ attempts' = 0
    /\ ret' = NoRet
    /\ pc' = "check"
    /\ UNCHANGED <<rate_vars, retr_vars, count_vars, conc_vars, local_vars>>

DirectReturn ==
    /\ pc = "ret"
    /\ caller = "direct"
    /\ ret.kind # "raised"
    /\ outcome' = "returned"
    /\ pc' = "done"
    /\ UNCHANGED <<rate_vars, caller, call_vars, max_results, total_count, target_count,
                   results_retrieved, all_results, pages, result, count_vars, conc_vars, local_vars>>

\* ---- business_api.py / consumer_api.py: the retrieval functions ----------
\* time.sleep(0.1) after a page: get_businesses and get_businesses_by_category only
HasPageDelay(v) == v \in {"get_businesses", "get_businesses_by_category"}

\* Python truthiness of max_results
Given(m) == m # None /\ m # 0

TargetCount(m, total) == IF Given(m) /\ m < total THEN m ELSE total

StartRetrieval ==
    /\ pc = "idle"
    /\ \E v \in Variants, m \in {None} \cup (0..MaxRequested) :
         /\ caller' = v
         /\ max_results' = m
    /\ method' = "POST"
    /\ has_polygon' = TRUE
    /\ attempts' = 0
    /\ ret' = NoRet
    /\ pc' = "check"
    /\ UNCHANGED <<rate_vars, total_count, target_count, results_retrieved,
                   all_results, pages, outcome, result, count_vars, conc_vars, local_vars>>

\* an exception raised by make_request passes through its caller
RaiseToCaller ==
    /\ pc = "ret"
    /\ ret.kind = "raised"
    /\ outcome' = "raised"
    /\ pc' = "done"
    /\ UNCHANGED <<rate_vars, caller, call_vars, max_results, total_count, target_count,
                   results_retrieved, all_results, pages, result, count_vars, conc_vars, local_vars>>

\* the answer to the initial POST
HandleInitial ==
    /\ pc = "ret"
    /\ caller \in Variants
    /\ method = "POST"
    /\ ret.kind # "raised"
    /\ IF ~Truthy(ret) \/ ret.count = 0
       THEN /\ outcome' = "returned"
            /\ result' = <<>>
            /\ pc' = "done"
            /\ total_count' = IF Truthy(ret) THEN ret.count ELSE total_count
            /\ UNCHANGED <<target_count>>
       ELSE /\ total_count' = ret.count
            /\ target_count' = TargetCount(max_results, ret.count)
            /\ pc' = "loop"
            /\ UNCHANGED <<outcome, result>>
    /\ UNCHANGED <<rate_vars, caller, call_vars, max_results, results_retrieved,
                   all_results, pages, count_vars, conc_vars, local_vars>>

\* while results_retrieved < target_count: make_request("GET", scroll_url, ...)
LoopTest ==
    /\ pc = "loop"
    /\ IF results_retrieved < target_count
       THEN /\ method' = "GET"
            /\ has_polygon' = FALSE
            /\ attempts' = 0
            /\ ret' = NoRet
            /\ pc' = "check"
            /\ UNCHANGED <<outcome, result>>
       ELSE /\ outcome' = "returned"
            /\ result' = all_results
            /\ pc' = "done"
            /\ UNCHANGED call_vars
    /\ UNCHANGED <<rate_vars, caller, max_results, total_count, target_count,
                   results_retrieved, all_results, pages, count_vars, conc_vars, local_vars>>

\* the answer to a scroll GET
HandlePage ==
    /\ pc = "ret"
    /\ caller \in Variants
    /\ method = "GET"
    /\ ret.kind # "raised"
    /\ pages' = Append(pages, ret.page)
    /\ IF ~Truthy(ret)
       THEN /\ outcome' = "returned"
            /\ result' = all_results
            /\ pc' = "done"
            /\ UNCHANGED <<all_results, results_retrieved>>
       ELSE /\ all_results' = all_results \o ret.page
            /\ results_retrieved' = results_retrieved + Len(ret.page)
            /\ IF HasPageDelay(caller)
               THEN /\ pc' = "delay"
                    /\ UNCHANGED <<outcome, result>>
               ELSE IF results_retrieved' >= target_count
               THEN /\ outcome' = "returned"
                    /\ result' = all_results'
                    /\ pc' = "done"
               ELSE /\ pc' = "loop"
                    /\ UNCHANGED <<outcome, result>>
    /\ UNCHANGED <<rate_vars, caller, call_vars, max_results, total_count,
                   target_count, count_vars, conc_vars, local_vars>>

\* time.sleep(0.1): shorter than the resolution of the clock
PageDelay ==
    /\ pc = "delay"
    /\ IF results_retrieved >= target_count
       THEN /\ outcome' = "returned"
            /\ result' = all_results
            /\ pc' = "done"
       ELSE /\ pc' = "loop"
            /\ UNCHANGED <<outcome, result>>
    /\ UNCHANGED <<rate_vars, caller, call_vars, max_results, total_count, target_count,
                   results_retrieved, all_results, pages, count_vars, conc_vars, local_vars>>

\* the caller takes the result (or the exception); the next call starts afresh
Finish ==
    /\ pc = "done"
    /\ pc' = "idle"
    /\ caller' = "none"
    /\ method' = "none"
    /\ has_polygon' = FALSE
    /\ attempts' = 0
    /\ ret' = NoRet
    /\ max_results' = None
    /\ total_count' = 0
    /\ target_count' = 0
    /\ results_retrieved' = 0
    /\ all_results' = <<>>
    /\ pages' = <<>>
    /\ outcome' = "none"
    /\ result' = <<>>
    /\ posts_sent' = 0
    /\ gets_sent' = 0
    /\ n429' = 0
    /\ last_status' = 0
    /\ UNCHANGED <<rate_vars, conc_vars, local_vars>>

\* ---- specifications -------------------------------------------------------
\* the retrieval functions on a clock that only the sleeps advance
Next ==
    \/ StartRetrieval
    \/ CheckRateLimit
    \/ SendBounded
    \/ RetryWait
    \/ RaiseToCaller
    \/ HandleInitial
    \/ LoopTest
    \/ HandlePage
    \/ PageDelay
    \/ Finish

Spec == Init /\ [][Next]_vars

\* a single caller of make_request at arbitrary clock times
RateNext ==
    \/ Tick
    \/ DirectCall
    \/ CheckRateLimit
    \/ SendBounded
    \/ RetryWait
    \/ RaiseToCaller
    \/ DirectReturn
    \/ Finish

RateSpec == Init /\ [][RateNext]_vars

\* the same caller, on a clock that only the sleeps advance, facing a server
\* that may answer 429 any number of times; the caller is a running thread:
\* a statement that can run does run
CallerStep ==
    \/ CheckRateLimit
    \/ SendAny
    \/ RetryWait
    \/ RaiseToCaller
    \/ DirectReturn

LiveNext ==
    \/ DirectCall
    \/ CallerStep
    \/ Finish

LiveSpec == Init /\ [][LiveNext]_vars /\ WF_vars(CallerStep)

\* ---- two callers of make_request, one statement at a time ----------------
\* Each action is one statement of check_rate_limit / make_request run by
\* caller c; the globals are read and written without any lock.
Goto(c, l) == cpc' = [cpc EXCEPT ![c] = l]
Shared == <<now, window_start_time, request_counter, sent_times>>

\* the locals of check_rate_limit are not read again once it has branched
Forget(c) ==
    /\ c_current_time' = [c_current_time EXCEPT ![c] = 0]
    /\ c_time_elapsed' = [c_time_elapsed EXCEPT ![c] = 0]

\* make_request(...) is entered
CEnter(c) ==
    /\ cpc[c] = "idle"
    /\ Goto(c, "read_clock")
    /\ overlapped' = (overlapped \/ \E d \in Callers \ {c} : cpc[d] # "idle")
    /\ UNCHANGED <<Shared, c_current_time, c_time_elapsed, c_sleep_left, sent_in_window>>

\* current_time = time.time()
CReadClock(c) ==
    /\ cpc[c] = "read_clock"
    /\ c_current_time' = [c_current_time EXCEPT ![c] = now]
    /\ Goto(c, "elapsed")
    /\ UNCHANGED <<Shared, c_time_elapsed, c_sleep_left, sent_in_window, overlapped>>

\* time_elapsed = current_time - window_start_time
CElapsed(c) ==
    /\ cpc[c] = "elapsed"
    /\ c_time_elapsed' = [c_time_elapsed EXCEPT ![c] = c_current_time[c] - window_start_time]
    /\ Goto(c, "if_window")
    /\ UNCHANGED <<Shared, c_current_time, c_sleep_left, sent_in_window, overlapped>>

\* if time_elapsed >= window_duration
CIfWindow(c) ==
    /\ cpc[c] = "if_window"
    /\ IF WindowPassed(c_time_elapsed[c])
       THEN /\ Goto(c, "reset_counter")
            /\ UNCHANGED c_current_time
       ELSE /\ Goto(c, "if_limit")
            /\ c_current_time' = [c_current_time EXCEPT ![c] = 0]
    /\ UNCHANGED <<Shared, c_time_elapsed, c_sleep_left, sent_in_window, overlapped>>

\* request_counter = 0
CResetCounter(c) ==
    /\ cpc[c] = "reset_counter"
    /\ request_counter' = 0
    /\ Goto(c, "reset_window")
    /\ UNCHANGED <<now, window_start_time, sent_times, c_current_time, c_time_elapsed,
                   c_sleep_left, sent_in_window, overlapped>>

\* window_start_time = current_time; return
CResetWindow(c) ==
    /\ cpc[c] = "reset_window"
    /\ window_start_time' = c_current_time[c]
    /\ sent_in_window' = 0
    /\ Goto(c, "request")
    /\ Forget(c)
    /\ UNCHANGED <<now, request_counter, sent_times, c_sleep_left, overlapped>>

\* if request_counter >= request_limit: sleep_time = ...; if sleep_time > 0: time.sleep(sleep_time)
CIfLimit(c) ==
    /\ cpc[c] = "if_limit"
    /\ LET sleep_time == window_duration - c_time_elapsed[c]
       IN  IF LimitReached(request_counter) /\ sleep_time > 0
           THEN /\ c_sleep_left' = [c_sleep_left EXCEPT ![c] = sleep_time]
                /\ Goto(c, "sleeping")
           ELSE /\ Goto(c, "request")
                /\ UNCHANGED c_sleep_left
    /\ Forget(c)
    /\ UNCHANGED <<Shared, sent_in_window, overlapped>>

\* time.sleep returns; request_counter = 0
CWake(c) ==
    /\ cpc[c] = "sleeping"
    /\ c_sleep_left[c] = 0
    /\ request_counter' = 0
    /\ Goto(c, "restart_window")
    /\ UNCHANGED <<now, window_start_time, sent_times, c_current_time, c_time_elapsed,
                   c_sleep_left, sent_in_window, overlapped>>

\* window_start_time = time.time()
CRestartWindow(c) ==
    /\ cpc[c] = "restart_window"
    /\ window_start_time' = now
    /\ sent_in_window' = 0
    /\ Goto(c, "request")
    /\ UNCHANGED <<now, request_counter, sent_times, c_current_time, c_time_elapsed,
                   c_sleep_left, overlapped>>

\* response = requests.request(...): answered, or RequestException (the call ends).
\* Runs that already exceeded the limit are not extended.
CRequest(c) ==
    /\ cpc[c] = "request"
    /\ sent_in_window <= request_limit
    /\ \/ /\ sent_in_window' = sent_in_window + 1
          /\ Goto(c, "increment")
       \/ /\ Goto(c, "idle")
          /\ UNCHANGED sent_in_window
    /\ UNCHANGED <<Shared, c_current_time, c_time_elapsed, c_sleep_left, overlapped>>

\* request_counter += 1, then the status handling ends the call (a 429 retry
\* is a further call of make_request)
CIncrement(c) ==
    /\ cpc[c] = "increment"
    /\ request_counter' = request_counter + 1
    /\ Goto(c, "idle")
    /\ UNCHANGED <<now, window_start_time, sent_times, c_current_time, c_time_elapsed,
                   c_sleep_left, sent_in_window, overlapped>>

\* one second passes
CTick ==
    /\ now' = ClockAfter(1)
    /\ window_start_time' = Rebase(window_start_time, 1)
    /\ c_current_time' = [c \in Callers |-> Rebase(c_current_time[c], 1)]
    /\ c_sleep_left' = [c \in Callers |-> IF c_sleep_left[c] > 0 THEN c_sleep_left[c] - 1 ELSE 0]
    /\ UNCHANGED <<request_counter, sent_times, cpc, c_time_elapsed, sent_in_window, overlapped>>

ConcNext ==
    \/ CTick /\ UNCHANGED <<single_vars, local_vars>>
    \/ \E c \in Callers :
         /\ \/ CEnter(c)
            \/ CReadClock(c)
            \/ CElapsed(c)
            \/ CIfWindow(c)
            \/ CResetCounter(c)
            \/ CResetWindow(c)
            \/ CIfLimit(c)
            \/ CWake(c)
            \/ CRestartWindow(c)
            \/ CRequest(c)
            \/ CIncrement(c)
         /\ UNCHANGED <<single_vars, local_vars>>

ConcSpec == Init /\ [][ConcNext]_vars

\* ==== polygon_helper.py: split_polygon, process_geojson =====================
\* A polygon is modelled by its exterior ring; a ring of n coordinates is the
\* closed sequence of n - 1 distinct vertices.  What shapely's split and
\* simplify compute is left open: any pieces and any simplified ring that the
\* bounds allow.  Of output_geojson['features'] the model keeps the length
\* and the list that is being appended.

\* ---- bounds --------------------------------------------------------------
MaxRing == 6        \* most coordinates of an exterior ring
MaxBudget == 5      \* largest max_points
MaxPieces == 2      \* most geometries shapely's split hands back
MaxPolys == 2       \* most polygons of a MultiPolygon
MaxFeatures == 2    \* most features of the input file
MaxDepth == 2       \* frames of split_polygon the interpreter allows before RecursionError

Props == {"a", "b"}
RingCounts == 4..MaxRing

api_vars == <<rate_vars, pc, caller, call_vars, retr_vars, count_vars, conc_vars>>
\* list(polygon.exterior.coords) of a polygon with n coordinates
Ring(n) == [i \in 1..n |-> IF i = n THEN 1 ELSE i]

count_polygon_points(polygon) == Len(Ring(polygon))

\* variant: one coordinate over the budget still passes
WithinBudget_OffByOne(polygon, budget) == count_polygon_points(polygon) <= budget + 1

\* the test of lines 45 and 85
WithinBudget(polygon, budget) == count_polygon_points(polygon) <= budget

\* coords[::step]
Subsample(ring, stride) ==
    [k \in 1..((Len(ring) - 1) \div stride + 1) |-> ring[1 + (k - 1) * stride]]

\* lines 97-98: close the ring if its ends differ
Reclose(ring) ==
    IF ring[1] # ring[Len(ring)]
    THEN Append(ring, ring[1])
    ELSE ring

\* lines 93-98
ReducedCoords(polygon, budget) ==
    LET ring == Ring(polygon)
        stride == Len(ring) \div budget + 1
    IN  Reclose(Subsample(ring, stride))

\* shapely's Polygon(coords) raises for a non-empty shell of fewer than four
\* coordinates
PolygonRaises(ring) == Len(ring) < 4

\* variant: a feature built without the properties handed in
Feature_NoProperties(origin, properties, points, path) ==
    [origin |-> origin, properties |-> "none", points |-> points, path |-> path]

\* {"type": "Feature", "geometry": ..., "properties": properties}; origin is
\* the position of the input feature it was derived from, path tells which
\* return statement built it
Feature(origin, properties, points, path) ==
    [origin |-> origin, properties |-> properties, points |-> points, path |-> path]

Geom(t, v, n) == [geom_type |-> t, is_valid |-> v, points |-> n]

\* a member of split_polys.geoms for a polygon of n coordinates cut by a line
PieceGeoms(n) ==
    {Geom("Polygon", TRUE, k) : k \in 4..Min(n + 1, MaxRing)}
        \cup {Geom("Polygon", FALSE, 4), Geom("LineString", TRUE, 2)}

RECURSIVE SeqsOver(_, _)
SeqsOver(S, n) == IF n = 0 THEN {<<>>}
                  ELSE LET Q == SeqsOver(S, n - 1)
                       IN  Q \cup {Append(q, x) : q \in {t \in Q : Len(t) = n - 1}, x \in S}

\* polygons of an input feature
PolysOf(type) ==
    CASE type = "Polygon" -> {<<n>> : n \in RingCounts}
      [] type = "MultiPolygon" -> SeqsOver(RingCounts, MaxPolys) \ {<<>>}
      [] OTHER -> {<<>>}

Frame(polygon, properties) ==
    [polygon |-> polygon, properties |-> properties, stage |-> "enter",
     seen |-> 0, result |-> <<>>]

Top == stack[Len(stack)]
Origin == Len(input_features)

\* the innermost call of split_polygon returns feats
ReturnFeatures(feats) ==
    LET d == Len(stack)
    IN  IF d = 1
        THEN /\ stack' = <<>>
             /\ split_features' = feats
             /\ gpc' = "extend"
             /\ UNCHANGED geo_outcome
        ELSE /\ stack' = [SubSeq(stack, 1, d - 1) EXCEPT ![d - 1].result = @ \o feats]
             /\ UNCHANGED <<split_features, gpc, geo_outcome>>

\* the innermost call of split_polygon raises: the calling split_polygon
\* catches it in its except clause, process_geojson does not
RaiseException ==
    LET d == Len(stack)
    IN  IF d = 1
        THEN /\ stack' = <<>>
             /\ gpc' = "done"
             /\ geo_outcome' = "raised"
             /\ UNCHANGED split_features
        ELSE /\ stack' = [SubSeq(stack, 1, d - 1) EXCEPT ![d - 1].stage = "except"]
             /\ UNCHANGED <<split_features, gpc, geo_outcome>>

\* the innermost call goes on as frame f
Continue(f) ==
    /\ stack' = [stack EXCEPT ![Len(stack)] = f]
    /\ UNCHANGED <<split_features, gpc, geo_outcome>>

\* process_geojson(input_file, output_file, max_points)
ProcessGeojson ==
    /\ gpc = "idle"
    /\ gpc' = "features"
    /\ max_points' \in 1..MaxBudget
    /\ UNCHANGED <<input_features, polys, split_features, output_count, stack,
                   geo_outcome, api_vars, cut_vars, filter_vars, agg_vars, score_vars, file_vars>>

\* lines 133-143: the next feature of the input
ReadFeature ==
    /\ gpc = "features"
    /\ Len(input_features) < MaxFeatures
    /\ \E type \in {"Polygon", "MultiPolygon", "Point"}, properties \in Props :
         /\ input_features' = Append(input_features,
                                     [type |-> type, properties |-> properties])
         /\ IF type \notin {"Polygon", "MultiPolygon"}
            THEN /\ output_count' = output_count + 1
                 /\ UNCHANGED <<gpc, polys>>
            ELSE /\ polys' \in PolysOf(type)
                 /\ gpc' = "polys"
                 /\ UNCHANGED output_count
    /\ UNCHANGED <<max_points, split_features, stack, geo_outcome, api_vars, cut_vars, filter_vars, agg_vars, score_vars, file_vars>>

\* lines 146-149, 153: split_polygon for the next polygon of the feature
NextPoly ==
    /\ gpc = "polys"
    /\ IF polys = <<>>
       THEN /\ gpc' = "features"
            /\ UNCHANGED <<polys, stack>>
       ELSE /\ stack' = <<Frame(Head(polys), input_features[Origin].properties)>>
            /\ polys' = Tail(polys)
            /\ gpc' = "call"
    /\ UNCHANGED <<max_points, input_features, split_features, output_count,
                   geo_outcome, api_vars, cut_vars, filter_vars, agg_vars, score_vars, file_vars>>

\* lines 150, 154
Extend ==
    /\ gpc = "extend"
    /\ output_count' = output_count + Len(split_features)
    /\ split_features' = <<>>
    /\ gpc' = "polys"
    /\ UNCHANGED <<max_points, input_features, polys, stack, geo_outcome, api_vars, cut_vars, filter_vars, agg_vars, score_vars, file_vars>>

\* lines 156-171: the input is used up
WriteOutput ==
    /\ gpc = "features"
    /\ gpc' = "done"
    /\ geo_outcome' = "returned"
    /\ UNCHANGED <<max_points, input_features, polys, split_features, output_count,
                   stack, api_vars, cut_vars, filter_vars, agg_vars, score_vars, file_vars>>

\* lines 45-50
CountCheck ==
    /\ gpc = "call"
    /\ Top.stage = "enter"
    /\ IF WithinBudget(Top.polygon, max_points)
       THEN ReturnFeatures(<<Feature(Origin, Top.properties,
                                     count_polygon_points(Top.polygon), "whole")>>)
       ELSE Continue([Top EXCEPT !.stage = "split"])
    /\ UNCHANGED <<max_points, input_features, polys, output_count, api_vars, cut_vars, filter_vars, agg_vars, score_vars, file_vars>>

\* lines 52-73: cut along the divider
Split ==
    /\ gpc = "call"
    /\ Top.stage = "split"
    /\ \/ Continue([Top EXCEPT !.stage = "except"])
       \/ Continue([Top EXCEPT !.stage = "loop"])
    /\ UNCHANGED <<max_points, input_features, polys, output_count, api_vars, cut_vars, filter_vars, agg_vars, score_vars, file_vars>>

\* lines 74-79: one turn of the loop over split_polys.geoms, or its end
Recurse ==
    /\ gpc = "call"
    /\ Top.stage = "loop"
    /\ \/ /\ Top.seen >= 1
          /\ ReturnFeatures(Top.result)
       \/ /\ Top.seen < MaxPieces
          /\ \E poly \in PieceGeoms(Top.polygon) :
               LET rest == [Top EXCEPT !.seen = @ + 1]
               IN  IF poly.geom_type = "Polygon" /\ poly.is_valid
                   THEN IF Len(stack) < MaxDepth
                        THEN /\ stack' = Append([stack EXCEPT ![Len(stack)] = rest],
                                                Frame(poly.points, Top.properties))
                             /\ UNCHANGED <<split_features, gpc, geo_outcome>>
                        ELSE Continue([rest EXCEPT !.stage = "except"])
                   ELSE Continue(rest)
    /\ UNCHANGED <<max_points, input_features, polys, output_count, api_vars, cut_vars, filter_vars, agg_vars, score_vars, file_vars>>

\* lines 80-105: simplify, else subsample
Fallback ==
    /\ gpc = "call"
    /\ Top.stage = "except"
    /\ \E simplified \in 4..Top.polygon :
         IF WithinBudget(simplified, max_points)
         THEN ReturnFeatures(<<Feature(Origin, Top.properties,
                                       count_polygon_points(simplified), "simplified")>>)
         ELSE LET reduced == ReducedCoords(Top.polygon, max_points)
              IN  IF PolygonRaises(reduced)
                  THEN RaiseException
                  ELSE ReturnFeatures(<<Feature(Origin, Top.properties,
                                                Len(reduced), "subsampled")>>)
    /\ UNCHANGED <<max_points, input_features, polys, output_count, api_vars, cut_vars, filter_vars, agg_vars, score_vars, file_vars>>

GeoNext ==
    \/ ProcessGeojson
    \/ ReadFeature
    \/ NextPoly
    \/ Extend
    \/ WriteOutput
    \/ CountCheck
    \/ Split
    \/ Recurse
    \/ Fallback

GeoSpec == Init /\ [][GeoNext]_vars

\* ==== insights_api.py: calculate_median_from_frequencies ====================
\* Midpoints are halves and the returned average of two midpoints a quarter
\* of an integer: the model keeps twice the midpoint and four times the
\* returned value.

\* ---- bounds --------------------------------------------------------------
MaxBuckets == 4     \* longest frequency list
MaxCount == 4       \* largest count of a bucket

\* lower and upper of a bucket; None stands for a missing 'upper'
Ranges == {[lower |-> 0, upper |-> 50], [lower |-> 50, upper |-> 100],
           [lower |-> 50, upper |-> None]}

Buckets == {[lower |-> r.lower, upper |-> r.upper, count |-> c] :
              r \in Ranges, c \in 0..MaxCount}

FrequencyLists == SeqsOver(Buckets, MaxBuckets)

RECURSIVE SumCounts(_)
SumCounts(list) == IF list = <<>> THEN 0
                   ELSE list[1].count + SumCounts(Tail(list))

\* lines 344-348, doubled
Midpoint2(freq) == IF freq.upper # None THEN freq.lower + freq.upper
                   ELSE 2 * freq.lower

\* lines 340-353
RECURSIVE ValidFrequencies(_)
ValidFrequencies(list) ==
    IF list = <<>> THEN <<>>
    ELSE LET freq == list[1]
             rest == ValidFrequencies(Tail(list))
         IN  IF freq.count > 0
             THEN <<[midpoint |-> Midpoint2(freq), count |-> freq.count]>> \o rest
             ELSE rest

\* list.sort(key=midpoint) is stable: an entry goes behind the entries of
\* the same midpoint that came before it
InsertByMidpoint(sorted, x) ==
    LET k == Cardinality({i \in 1..Len(sorted) : sorted[i].midpoint <= x.midpoint})
    IN  SubSeq(sorted, 1, k) \o <<x>> \o SubSeq(sorted, k + 1, Len(sorted))

RECURSIVE SortByMidpoint(_)
SortByMidpoint(list) ==
    IF list = <<>> THEN <<>>
    ELSE InsertByMidpoint(SortByMidpoint(SubSeq(list, 1, Len(list) - 1)), list[Len(list)])

\* cumulative_count after the entry at position i
Cumulative(valid, i) == SumCounts(SubSeq(valid, 1, i))

\* position at which the loop of lines 361-370 returns
HitPosition(valid, total) ==
    CHOOSE i \in 1..Len(valid) :
        /\ 2 * Cumulative(valid, i) >= total
        /\ \A j \in 1..(i - 1) : 2 * Cumulative(valid, j) < total

\* list.index(x): the first position holding an entry equal to x
IndexOf(list, x) == CHOOSE i \in 1..Len(list) :
                        /\ list[i] = x
                        /\ \A j \in 1..(i - 1) : list[j] # x

\* calculate_median_from_frequencies, times four
calculate_median_from_frequencies(list) ==
    IF list = <<>> THEN 0
    ELSE LET total == SumCounts(list)
         IN  IF total = 0 THEN 0
             ELSE LET valid == SortByMidpoint(ValidFrequencies(list))
                      i == HitPosition(valid, total)
                      freq == valid[i]
                  IN  IF 2 * Cumulative(valid, i) = total /\ freq # valid[Len(valid)]
                      THEN freq.midpoint + valid[IndexOf(valid, freq) + 1].midpoint
                      ELSE 2 * freq.midpoint

\* the list with the entries at i and j exchanged
Swapped(list, i, j) ==
    [k \in 1..Len(list) |-> IF k = i THEN list[j] ELSE IF k = j THEN list[i] ELSE list[k]]

MedianInit ==
    /\ ApiIdle
    /\ GeoIdle
    /\ ScoreIdle
    /\ FileIdle
    /\ mpc = "start"
    /\ frequencies \in FrequencyLists
    /\ median = None
    /\ median_before = None
    /\ rate = NoRate

\* a call of calculate_median_from_frequencies(frequencies)
CalculateMedian ==
    /\ mpc \in {"start", "reordered"}
    /\ median' = calculate_median_from_frequencies(frequencies)
    /\ mpc' = IF mpc = "start" THEN "computed" ELSE "recomputed"
    /\ UNCHANGED <<frequencies, median_before, rate, api_vars, cut_vars, filter_vars, geo_vars, score_vars, file_vars>>

\* the caller reorders the list before a second call
Reorder ==
    /\ mpc = "computed"
    /\ \E i, j \in 1..Len(frequencies) :
         /\ i < j
         /\ frequencies' = Swapped(frequencies, i, j)
    /\ median_before' = median
    /\ median' = None
    /\ mpc' = "reordered"
    /\ UNCHANGED <<rate, api_vars, cut_vars, filter_vars, geo_vars, score_vars, file_vars>>

MedianNext ==
    \/ CalculateMedian
    \/ Reorder

MedianSpec == MedianInit /\ [][MedianNext]_vars

\* ==== insights_api.py: calculate_home_ownership_rate ========================
\* The returned quotient is kept as <<numerator, denominator>>; the integer 0
\* the function returns for an empty input or an empty total is <<0, 1>>.

\* ---- bounds --------------------------------------------------------------
MaxOwnerBuckets == 2    \* longest list of home-owner buckets

\* counts and unique counts of a bucket
OwnerCounts == {0, 10, 30}

\* a bucket: value is "true", "false" or "other" (missing, or no boolean);
\* unique_count = None stands for a bucket without insights.unique_count
OwnerBuckets == {[value |-> v, count |-> c, unique_count |-> u] :
                   v \in {"true", "false", "other"}, c \in OwnerCounts,
                   u \in OwnerCounts \cup {None}}

OwnerLists == SeqsOver(OwnerBuckets, MaxOwnerBuckets)

\* lines 392-395: what a bucket adds; one without unique_count is skipped
Counted(freq) == IF freq.unique_count # None THEN freq.unique_count ELSE 0

\* lines 391-402: the sum over the buckets whose value is v
RECURSIVE CountOf(_, _)
CountOf(list, v) ==
    IF list = <<>> THEN 0
    ELSE (IF list[1].value = v THEN Counted(list[1]) ELSE 0) + CountOf(Tail(list), v)

calculate_home_ownership_rate(list) ==
    IF list = <<>> THEN <<0, 1>>
    ELSE LET owner_count == CountOf(list, "true")
             non_owner_count == CountOf(list, "false")
             total == owner_count + non_owner_count
         IN  IF total = 0 THEN <<0, 1>> ELSE <<owner_count, total>>

OwnerInit ==
    /\ ApiIdle
    /\ GeoIdle
    /\ ScoreIdle
    /\ FileIdle
    /\ mpc = "start"
    /\ frequencies \in OwnerLists
    /\ median = None
    /\ median_before = None
    /\ rate = NoRate

\* a call of calculate_home_ownership_rate(frequencies)
CalculateRate ==
    /\ mpc = "start"
    /\ rate' = calculate_home_ownership_rate(frequencies)
    /\ mpc' = "computed"
    /\ UNCHANGED <<frequencies, median, median_before, api_vars, cut_vars, filter_vars, geo_vars, score_vars, file_vars>>

OwnerNext == CalculateRate

OwnerSpec == OwnerInit /\ [][OwnerNext]_vars

\* ==== insights_api.py: calculate_affluence_score ============================
\* Scores are kept times ScoreScale, the returned score times 100.  The
\* home ownership rate is kept in hundredths.  A response is modelled by the
\* value its aggregation helper derives from it.

ScoreScale == 10000

\* lines 450-452: the medians that score 100
income_norm == 125000
home_value_norm == 250000
wealth_norm == 200000

\* lines 456-459: the weights, in hundredths
income_weight == 30
home_value_weight == 30
wealth_weight == 25
ownership_weight == 15

\* medians and rates the responses may hold
Incomes == {0, 33333, 125000, 250000}
HomeValues == {0, 77777, 250000, 500000}
Wealths == {0, 16, 200000, 400000}
Rates == {0, 33, 75, 100}

\* variant: the normalised metric is not capped
Normalised_NoCap(m, norm) == m * ((ScoreScale * 100) \div norm)

\* min(median / norm * 100, 100), times ScoreScale
Normalised(m, norm) == Min(m * ((ScoreScale * 100) \div norm), 100 * ScoreScale)

\* round(n / d) to the nearest integer, a tie to the even one
Round(n, d) ==
    LET q == n \div d
        r == n % d
    IN  IF 2 * r > d \/ (2 * r = d /\ q % 2 = 1) THEN q + 1 ELSE q

\* lines 448-462, times 100
AffluenceScore(income, home_value, wealth, ownership) ==
    LET income_score == Normalised(income, income_norm)
        home_value_score == Normalised(home_value, home_value_norm)
        wealth_score == Normalised(wealth, wealth_norm)
        ownership_score == ownership * ScoreScale
        total_score == income_score * income_weight
                         + home_value_score * home_value_weight
                         + wealth_score * wealth_weight
                         + ownership_score * ownership_weight
    IN  Round(total_score, ScoreScale)

\* the four metrics are handed in
ScoreInit ==
    /\ ApiIdle
    /\ GeoIdle
    /\ AggIdle
    /\ FileIdle
    /\ spc = "score"
    /\ responses = <<>>
    /\ median_income \in Incomes
    /\ median_home_value \in HomeValues
    /\ median_wealth \in Wealths
    /\ home_ownership_rate \in Rates
    /\ score = None
    /\ score_outcome = "none"

\* calculate_affluence_score(polygon_json)
CalculateAffluenceScore ==
    /\ spc = "idle"
    /\ spc' = "fetch"
    /\ UNCHANGED <<responses, median_income, median_home_value, median_wealth,
                   home_ownership_rate, score, score_outcome, api_vars, cut_vars, filter_vars, geo_vars, agg_vars, file_vars>>

\* values the k-th fetch may bring
ValuesOf(k) == CASE k = 1 -> Incomes
                 [] k = 2 -> HomeValues
                 [] k = 3 -> Wealths
                 [] OTHER -> Rates

PyNoneResponse == [kind |-> "None", value |-> 0]
JsonResponse(v) == [kind |-> "json", value |-> v]

\* lines 422-425: get_income_distribution, get_home_value_distribution,
\* get_wealth_distribution, get_home_ownership_rate, each one make_request
\* call with a geo_polygon payload and no handler around it
Fetch ==
    /\ spc = "fetch"
    /\ Len(responses) < 4
    /\ \/ \E status \in Statuses :
            LET how == OnStatus(status, TRUE)
            IN  CASE how = "json" ->
                       /\ \E v \in ValuesOf(Len(responses) + 1) :
                            responses' = Append(responses, JsonResponse(v))
                       /\ UNCHANGED <<spc, score_outcome>>
                  [] how = "null" ->
                       /\ responses' = Append(responses, PyNoneResponse)
                       /\ UNCHANGED <<spc, score_outcome>>
                  [] how = "retry" ->
                       UNCHANGED <<responses, spc, score_outcome>>
                  [] OTHER ->
                       /\ spc' = "done"
                       /\ score_outcome' = "raised"
                       /\ UNCHANGED responses
       \/ /\ spc' = "done"
          /\ score_outcome' = "raised"
          /\ UNCHANGED responses
    /\ UNCHANGED <<median_income, median_home_value, median_wealth,
                   home_ownership_rate, score, api_vars, cut_vars, filter_vars, geo_vars, agg_vars, file_vars>>

\* 'helper(response...) if response else 0'
Derived(response) == IF response.kind = "json" THEN response.value ELSE 0

\* lines 427-445
Medians ==
    /\ spc = "fetch"
    /\ Len(responses) = 4
    /\ median_income' = Derived(responses[1])
    /\ median_home_value' = Derived(responses[2])
    /\ median_wealth' = Derived(responses[3])
    /\ home_ownership_rate' = Derived(responses[4])
    /\ spc' = "score"
    /\ UNCHANGED <<responses, score, score_outcome, api_vars, cut_vars, filter_vars, geo_vars, agg_vars, file_vars>>

\* lines 447-462
ComputeScore ==
    /\ spc = "score"
    /\ score' = AffluenceScore(median_income, median_home_value, median_wealth,
                               home_ownership_rate)
    /\ score_outcome' = "returned"
    /\ spc' = "done"
    /\ UNCHANGED <<responses, median_income, median_home_value, median_wealth,
                   home_ownership_rate, api_vars, cut_vars, filter_vars, geo_vars, agg_vars, file_vars>>

ScoreNext == ComputeScore

ScoreSpec == ScoreInit /\ [][ScoreNext]_vars

AffluenceNext ==
    \/ CalculateAffluenceScore
    \/ Fetch
    \/ Medians
    \/ ComputeScore

AffluenceSpec == Init /\ [][AffluenceNext]_vars

\* ==== file_processors: process_file, export_to_geojson ======================
\* kmz_processor.py and kml_processor.py hold the same export_to_geojson;
\* they differ in what the module imports.

\* ---- bounds --------------------------------------------------------------
MaxRecords == 3     \* most placemarks of a file

FileTypes == {"kmz", "kml"}

\* placemark['geometry']: None or a geometry
Geometries == {"None", "Polygon", "Point"}

\* the module defines the name mapping: kmz_processor.py imports it from
\* shapely.geometry (line 13), kml_processor.py imports os, json, logging and
\* three fastkml names only (lines 7-12)
MappingDefined(type) == type = "kmz"

\* process_file: the extraction hands back the records, export follows
ProcessFile ==
    /\ xpc = "idle"
    /\ file_type' \in FileTypes
    /\ placemark_info' \in SeqsOver(Geometries, MaxRecords)
    /\ record_index' = 0
    /\ features' = <<>>
    /\ xpc' = "export"
    /\ UNCHANGED <<output_file, export_result, api_vars, cut_vars, filter_vars, geo_vars, agg_vars, score_vars,
                   epc, kmz_file, placemarks, extracted>>

\* one turn of the loop of export_to_geojson; a Feature is named by the
\* position of its record.  Calling an undefined name raises NameError,
\* which the except clause answers with return False
ExportRecord ==
    /\ xpc = "export"
    /\ record_index < Len(placemark_info)
    /\ LET i == record_index + 1
           placemark == placemark_info[i]
       IN  IF placemark # "None"
           THEN IF MappingDefined(file_type)
                THEN /\ features' = Append(features, i)
                     /\ record_index' = i
                     /\ UNCHANGED <<xpc, export_result>>
                ELSE /\ xpc' = "done"
                     /\ export_result' = "False"
                     /\ UNCHANGED <<features, record_index>>
           ELSE /\ record_index' = i
                /\ UNCHANGED <<features, xpc, export_result>>
    /\ UNCHANGED <<file_type, placemark_info, output_file, api_vars, cut_vars, filter_vars, geo_vars, agg_vars, score_vars,
                   epc, kmz_file, placemarks, extracted>>

\* the collection is written
WriteFile ==
    /\ xpc = "export"
    /\ record_index = Len(placemark_info)
    /\ output_file' = [exists |-> TRUE, features |-> features]
    /\ export_result' = "True"
    /\ xpc' = "done"
    /\ UNCHANGED <<file_type, placemark_info, record_index, features, api_vars, cut_vars, filter_vars, geo_vars, agg_vars, score_vars,
                   epc, kmz_file, placemarks, extracted>>

FileNext ==
    \/ ProcessFile
    \/ ExportRecord
    \/ WriteFile

FileSpec == Init /\ [][FileNext]_vars

\* ==== polygon_helper.py: split_polygon, the divider and the forced subsample
\* The two computations of split_polygon that depend on nothing but their
\* inputs, each applied to inputs drawn from a bounded set.  Coordinates of
\* the divider are doubled, so that a midpoint is an integer.

\* ---- bounds --------------------------------------------------------------
MaxExtent == 2      \* largest coordinate of a bounding box
MaxLongRing == 9    \* most coordinates of a ring handed to the forced subsample

\* lines 52-66: the bounding box of an over-budget polygon and the line that
\* cuts it
ChooseDivider ==
    /\ divider = <<>>
    /\ \E minx, miny, maxx, maxy \in 0..MaxExtent :
         /\ minx < maxx
         /\ miny < maxy
         /\ bounds' = <<minx, miny, maxx, maxy>>
         /\ LET width == maxx - minx
                height == maxy - miny
                mid_x2 == 2 * minx + width
                mid_y2 == 2 * miny + height
            IN  divider' = IF width > height
                           THEN <<<<mid_x2, 2 * (miny - 1)>>, <<mid_x2, 2 * (maxy + 1)>>>>
                           ELSE <<<<2 * (minx - 1), mid_y2>>, <<2 * (maxx + 1), mid_y2>>>>
    /\ UNCHANGED <<coords, step, reduced_coords, api_vars, filter_vars, geo_vars, agg_vars, score_vars, file_vars>>

\* lines 92-98: the ring of a polygon that is over the budget, also after
\* simplify, is subsampled and closed
ForceReduce ==
    /\ coords = <<>>
    /\ \E n \in 4..MaxLongRing, budget \in 1..MaxBudget :
         /\ ~WithinBudget(n, budget)
         /\ max_points' = budget
         /\ coords' = Ring(n)
    /\ step' = Len(coords') \div max_points' + 1
    /\ reduced_coords' = Reclose(Subsample(coords', step'))
    /\ UNCHANGED <<bounds, divider, gpc, input_features, polys, split_features, output_count,
                   stack, geo_outcome, api_vars, filter_vars, agg_vars, score_vars, file_vars>>

CutNext ==
    \/ ChooseDivider
    \/ ForceReduce

CutSpec == Init /\ [][CutNext]_vars

\* ==== kmz_processor.py: extract_placemarks_from_kmz ========================
\* A coordinates element is modelled by what the parse functions make of its
\* text: "valid" parses, "unparsable" makes float() raise inside the try of
\* parse_*_coords, "absent" is a geometry without a coordinates element.  A
\* shapely geometry is its type and the positions of the coordinate texts it
\* was built from; None is the geometry of type "None".

\* ---- bounds --------------------------------------------------------------
MaxPlacemarks == 2  \* most Placemark elements of a document
MaxInner == 2       \* most Polygon elements inside one MultiGeometry

\* a Placemark element: its geometry child, the coordinate text of a simple
\* geometry, the coordinate texts of the Polygons inside a MultiGeometry
Placemarks ==
    LET Texts == {"valid", "unparsable", "absent"}
    IN  {[kind |-> "none", text |-> "absent", inner |-> <<>>]}
        \cup {[kind |-> k, text |-> t, inner |-> <<>>] :
                 k \in {"Polygon", "Point", "LineString"}, t \in Texts}
        \cup {[kind |-> "MultiGeometry", text |-> "absent", inner |-> s] :
                 s \in SeqsOver(Texts, MaxInner)}

\* the record of one placemark, lines 203-270.  './/kml:Polygon' searches
\* all descendants of the placemark, so the first Polygon inside a
\* MultiGeometry is found by the search of line 204
PlacemarkRecord(p) ==
    LET PyNoneGeometry == [type |-> "None", parts |-> <<>>]
        \* lines 217-219: parse_*_coords of the coordinates element, if any
        parse_coords(type, text) ==
            IF text = "valid" THEN [type |-> type, parts |-> <<1>>] ELSE PyNoneGeometry
        polygon == IF p.kind = "Polygon" THEN <<p.text>>
                   ELSE IF p.kind = "MultiGeometry" /\ Len(p.inner) > 0 THEN <<p.inner[1]>>
                   ELSE <<>>
        \* lines 239-245
        multi_polys == SelectSeq([i \in 1..Len(p.inner) |-> i],
                                 LAMBDA i : p.inner[i] = "valid")
    IN  IF polygon # <<>>
        THEN [geometry_type |-> "Polygon", geometry |-> parse_coords("Polygon", polygon[1])]
        ELSE IF p.kind \in {"Point", "LineString"}
        THEN [geometry_type |-> p.kind, geometry |-> parse_coords(p.kind, p.text)]
        ELSE IF p.kind = "MultiGeometry"
        THEN [geometry_type |-> "MultiGeometry",
              geometry |-> IF Len(p.inner) > 0 /\ multi_polys # <<>>
                           THEN [type |-> "MultiPolygon", parts |-> multi_polys]
                           ELSE PyNoneGeometry]
        ELSE [geometry_type |-> "None", geometry |-> PyNoneGeometry]

\* lines 144-190: the file is present or not, a zip archive or not, holds
\* a .kml member or not, with well-formed markup or not.  ZipFile() and
\* ET.fromstring() are called outside any try
ExtractPlacemarksFromKmz ==
    /\ epc = "idle"
    /\ kmz_file' \in [exists : BOOLEAN, archive : {"zip", "bad"}, kml_files : 0..1,
                      markup : {"wellformed", "malformed"}]
    /\ placemarks' = <<>>
    /\ extracted' = <<>>
    /\ epc' = IF ~kmz_file'.exists THEN "returned"
              ELSE IF kmz_file'.archive = "bad" THEN "raised"
              ELSE IF kmz_file'.kml_files = 0 THEN "returned"
              ELSE IF kmz_file'.markup = "malformed" THEN "raised"
              ELSE "loop"
    /\ UNCHANGED <<xpc, file_type, placemark_info, record_index, features, output_file,
                   export_result, api_vars, cut_vars, filter_vars, geo_vars, agg_vars, score_vars>>

\* one turn of the loop of lines 192-270
NextPlacemark ==
    /\ epc = "loop"
    /\ Len(placemarks) < MaxPlacemarks
    /\ \E p \in Placemarks :
          /\ placemarks' = Append(placemarks, p)
          /\ extracted' = Append(extracted, PlacemarkRecord(p))
    /\ UNCHANGED <<xpc, file_type, placemark_info, record_index, features, output_file,
                   export_result, epc, kmz_file, api_vars, cut_vars, filter_vars, geo_vars, agg_vars, score_vars>>

\* line 272
ReturnPlacemarks ==
    /\ epc = "loop"
    /\ epc' = "returned"
    /\ UNCHANGED <<xpc, file_type, placemark_info, record_index, features, output_file,
                   export_result, kmz_file, placemarks, extracted,
                   api_vars, cut_vars, filter_vars, geo_vars, agg_vars, score_vars>>

ExtractNext ==
    \/ ExtractPlacemarksFromKmz
    \/ NextPlacemark
    \/ ReturnPlacemarks

ExtractSpec == Init /\ [][ExtractNext]_vars

\* ==== consumer_api.py: get_consumers_by_attributes, the filter ==============
\* A value of the attributes dict is a scalar or a dict; a dict may hold the
\* keys "min" and "max" (None: the key is missing).

\* ---- bounds --------------------------------------------------------------
MaxAttributes == 2  \* most items of the attributes dict
MaxBound == 2       \* largest value of a min or max bound

\* lines 145-178: the geo_polygon leaf, then one leaf for each item
BuildFilter ==
    /\ propositions = <<>>
    /\ LET Limits == {None} \cup (1..MaxBound)
           Values == [is_dict : {TRUE}, min : Limits, max : Limits, scalar : {None}]
                       \cup {[is_dict |-> FALSE, min |-> None, max |-> None, scalar |-> 1]}
           Items == (1..MaxAttributes) \X Values
       IN  /\ attributes' \in SeqsOver(Items, MaxAttributes)
           /\ \A i, j \in 1..Len(attributes') : i # j => attributes'[i][1] # attributes'[j][1]
    /\ LET leaf(item) ==
               LET attribute == item[1]
                   value == item[2]
               IN  IF value.is_dict /\ value.min # None
                   THEN [relation |-> "greater_than_equals", attribute |-> attribute,
                         value |-> value.min]
                   ELSE IF value.is_dict /\ value.max # None
                   THEN [relation |-> "less_than_equals", attribute |-> attribute,
                         value |-> value.max]
                   ELSE [relation |-> "equals", attribute |-> attribute, value |-> value]
       IN  propositions' = <<[relation |-> "geo_polygon", attribute |-> 0, value |-> "polygon_json"]>>
                             \o [i \in 1..Len(attributes') |-> leaf(attributes'[i])]
    /\ UNCHANGED <<api_vars, cut_vars, geo_vars, agg_vars, score_vars, file_vars>>

FilterSpec == Init /\ [][BuildFilter]_vars

\* ==== claims ================================================================

\* C1: for a single caller, no interval of length window_duration holds more
\* than request_limit outbound requests, also across a counter reset.
\* (sent_times holds the requests of the last window_duration seconds that
\* reached the server, i.e. got an HTTP answer.)
C1_SlidingWindowLimit == Len(sent_times) <= request_limit

\* C3: one logical make_request call issues at most two HTTP attempts
\* (one retry after a 429), whatever the server answers to the retry.
C3_AtMostOneRetry == attempts <= 2

\* C2: without locking, two concurrent callers can send more than
\* request_limit requests within one window; the limit holds as long as the
\* calls do not overlap (access to the counter/window pair is serialized).
C2_LimitHoldsWhenSerialized == sent_in_window > request_limit => overlapped

C2_Witness_LimitExceeded == sent_in_window > request_limit /\ overlapped

\* C4: every make_request call eventually completes (returns or raises),
\* whatever the server answers, a server that always answers 429 included.
C4_EveryCallCompletes == (pc = "check") ~> (pc = "done")

RECURSIVE Flatten(_)
Flatten(ps) == IF ps = <<>> THEN <<>> ELSE Head(ps) \o Flatten(Tail(ps))

\* a retrieval function is running or has just ended
InRetrieval == caller \in Variants

C6_EmptyPageReturnsPartial ==
    (InRetrieval /\ pages # <<>> /\ pages[Len(pages)] = <<>>)
        => /\ pc = "done"
           /\ outcome = "returned"
           /\ result = Flatten(pages)

C6_Witness_PartialResult ==
    /\ InRetrieval /\ pc = "done" /\ Len(pages) = 2
    /\ pages[2] = <<>> /\ result = pages[1] /\ Len(result) > 0
    /\ results_retrieved < target_count

\* the effective target the specification prescribes
SpecTarget == IF max_results # None THEN Min(max_results, total_count) ELSE total_count

\* C7: for every requested target r (r = 0 included) and total_count t > 0
\* the loop's target is min(r, t), and t when no target was requested.
C7_EffectiveTarget == (InRetrieval /\ total_count > 0) => target_count = SpecTarget

\* C8: the returned list never holds more records than the effective target.
C8_ResultWithinTarget ==
    (InRetrieval /\ outcome = "returned") => Len(result) <= SpecTarget

\* a status that is neither 200, nor 429, nor 500 answering a body with a spatial filter
HardFailure(status, polygon_in_data) ==
    /\ status \in Statuses \ {200, 429}
    /\ ~(status = 500 /\ polygon_in_data)

C10_Polygon500IsNull ==
    (InRetrieval /\ last_status = 500 /\ has_polygon)
        => /\ pc \in {"ret", "done"}
           /\ ret = PyNone
           /\ pc = "done" => (outcome = "returned" /\ result = <<>> /\ gets_sent = 0)

C10_Witness_Polygon500 ==
    /\ InRetrieval /\ last_status = 500 /\ has_polygon
    /\ pc = "done" /\ outcome = "returned" /\ result = <<>>

\* C11: every request attempt that has passed the rate gate (the step that
\* leaves "send") raises request_counter by exactly one, whatever the attempt
\* ends in: a 200, a 429, an error status or a network-level failure.
C11_EveryAttemptCounted ==
    [][(pc = "send" /\ pc' # "send") => request_counter' = request_counter + 1]_vars

\* features split_polygon calls have returned and that are still held in a
\* list: the results of the calls in progress and split_features
Returned ==
    {split_features[i] : i \in 1..Len(split_features)}
        \cup UNION {{stack[d].result[i] : i \in 1..Len(stack[d].result)} : d \in 1..Len(stack)}

\* C12: every feature split_polygon returns that the exception fallback did
\* not build has an exterior ring of at most max_points coordinates.
C12_PartsWithinBudget ==
    \A f \in Returned : f.path = "whole" => f.points <= max_points

C12_Witness_RecursiveParts ==
    /\ gpc = "extend"
    /\ Len(split_features) = 2
    /\ \A i \in 1..2 : split_features[i].path = "whole" /\ split_features[i].points <= max_points

\* C13: split_polygon never raises to its caller for max_points >= 1, also
\* when the geometric split raises: the fallback itself cannot raise.
C13_SplitNeverRaises == geo_outcome # "raised"

\* C14: every feature returned by split_polygon, on each of its four return
\* paths, and so every feature process_geojson derives from a Polygon or a
\* MultiPolygon, carries the properties of the input feature it comes from.
C14_PropertiesPreserved ==
    \A f \in Returned : f.properties = input_features[f.origin].properties

C14_Witness_SecondFeatureSplit ==
    /\ gpc = "extend"
    /\ Origin = 2
    /\ input_features[2].type = "MultiPolygon"
    /\ input_features[1].properties # input_features[2].properties
    /\ Len(split_features) = 2
    /\ split_features[1].path = "whole"
    /\ split_features[2].path \in {"simplified", "subsampled"}

\* C15: calculate_median_from_frequencies gives the same median for a list
\* of buckets and for every reordering of it.
C15_MedianOrderIndependent ==
    mpc = "recomputed" => median = median_before

\* what C16 states, times four: sort the non-zero buckets by representative
\* value; at the first position i whose cumulative count reaches
\* total_count / 2 the result is the average of the values at i and i + 1
\* when the cumulative count equals total_count / 2 and i is not the last
\* position, the value at i otherwise.
SpecMedian(list) ==
    LET total == SumCounts(list)
        valid == SortByMidpoint(ValidFrequencies(list))
        i == HitPosition(valid, total)
    IN  IF 2 * Cumulative(valid, i) = total /\ i < Len(valid)
        THEN valid[i].midpoint + valid[i + 1].midpoint
        ELSE 2 * valid[i].midpoint

\* C16: the tie-break of calculate_median_from_frequencies averages the
\* values at positions i and i + 1, and returns the value at i otherwise.
C16_TieBreakAveragesNext ==
    (mpc = "computed" /\ SumCounts(frequencies) > 0)
        => median = SpecMedian(frequencies)

\* what C17 states: T and F sum the unique_count of a bucket that has one
\* and its count otherwise
RECURSIVE SpecCountOf(_, _)
SpecCountOf(list, v) ==
    IF list = <<>> THEN 0
    ELSE (IF list[1].value = v
          THEN (IF list[1].unique_count # None THEN list[1].unique_count ELSE list[1].count)
          ELSE 0) + SpecCountOf(Tail(list), v)

\* C17: calculate_home_ownership_rate returns T / (T + F), and 0 when
\* T + F = 0 or the input is empty.
C17_OwnershipRate ==
    mpc = "computed" /\ rate # NoRate
        => LET T == SpecCountOf(frequencies, "true")
               F == SpecCountOf(frequencies, "false")
           IN  IF T + F = 0 THEN rate[1] = 0
               ELSE rate[1] * (T + F) = T * rate[2]

\* what C18 states, times 100: round(0.30 min(100, income / 1250)
\* + 0.30 min(100, home_value / 2500) + 0.25 min(100, wealth / 2000)
\* + 0.15 min(100, 100 ratio), 2)
SpecScore(income, home_value, wealth, ownership) ==
    Round(30 * Min(100 * ScoreScale, income * (ScoreScale \div 1250))
            + 30 * Min(100 * ScoreScale, home_value * (ScoreScale \div 2500))
            + 25 * Min(100 * ScoreScale, wealth * (ScoreScale \div 2000))
            + 15 * Min(100 * ScoreScale, ownership * ScoreScale),
          ScoreScale)

\* C18: the composite score equals the weighted, capped sum rounded to two
\* decimals; it is exactly 100.00 at (125000, 250000, 200000, 1.0) and lies
\* within [0, 100].
C18_CompositeScore ==
    score_outcome = "returned"
        => /\ score = SpecScore(median_income, median_home_value, median_wealth,
                                home_ownership_rate)
           /\ score >= 0 /\ score <= 100 * 100
           /\ (median_income = 125000 /\ median_home_value = 250000
                 /\ median_wealth = 200000 /\ home_ownership_rate = 100)
                => score = 100 * 100

C18_Witness_ReferenceInput ==
    /\ score_outcome = "returned"
    /\ median_income = 125000 /\ median_home_value = 250000
    /\ median_wealth = 200000 /\ home_ownership_rate = 100
    /\ score = 100 * 100

\* C19: calculate_affluence_score never aborts because a fetch failed: a
\* null result or a hard request failure of one of the four fetches makes
\* that term 0 and a score is still returned.
C19_NeverAborts == score_outcome # "raised"

\* positions of the records of list, from position i on, whose geometry is
\* not None
RECURSIVE WithGeometry(_, _)
WithGeometry(list, i) ==
    IF i > Len(list) THEN <<>>
    ELSE (IF list[i] # "None" THEN <<i>> ELSE <<>>) \o WithGeometry(list, i + 1)

\* C20: for KMZ and for KML, process_file followed by export_to_geojson
\* writes a feature collection holding exactly one Feature, in extraction
\* order, for each record whose geometry is not None, and none for a record
\* whose geometry is None.
C20_OneFeaturePerGeometry ==
    xpc = "done"
        => /\ output_file.exists
           /\ output_file.features = WithGeometry(placemark_info, 1)

\* C21: extraction never raises: a missing file gives an empty sequence, and an
\* unparsable archive or malformed markup gives an empty result.
C21_ExtractionNeverRaises == epc # "raised"

\* positions of the inner polygons whose coordinate text parses
ParsableInner(p) == SelectSeq([i \in 1..Len(p.inner) |-> i], LAMBDA i : p.inner[i] = "valid")

\* C26: a placemark whose MultiGeometry holds k >= 1 polygons that parse is
\* extracted as one MultiPolygon made of all k of them.
C26_MultiGeometryFlattened ==
    \A i \in 1..Len(extracted) :
        (placemarks[i].kind = "MultiGeometry" /\ ParsableInner(placemarks[i]) # <<>>)
        => extracted[i].geometry = [type |-> "MultiPolygon", parts |-> ParsableInner(placemarks[i])]

\* C22: in every retrieval variant a fixed delay lies between two consecutive
\* cursor fetches: after the answer to a cursor GET the loop never goes back
\* to its test (and from there to the next GET) without the delay step.
C22_DelayBetweenFetches ==
    [][~(caller \in Variants /\ method = "GET" /\ pc = "ret" /\ pc' = "loop")]_vars

\* C23: the four retrieval variants take the same steps on the same answers:
\* what follows an accepted page is what follows it in get_businesses, the
\* delay step, whatever the variant.
C23_VariantsTakeSameSteps ==
    [][(caller \in Variants /\ method = "GET" /\ pc = "ret" /\ Truthy(ret))
         => ((pc' = "delay") <=> HasPageDelay("get_businesses"))]_vars

\* C24: a bounding box that is at least as wide as high (a square included) is
\* cut by a vertical line through its horizontal midpoint, a higher one by a
\* horizontal line through its vertical midpoint.
C24_WideOrSquareCutVertically ==
    divider # <<>> =>
        LET minx == bounds[1]
            miny == bounds[2]
            maxx == bounds[3]
            maxy == bounds[4]
        IN  IF maxx - minx >= maxy - miny
            THEN divider[1][1] = minx + maxx /\ divider[2][1] = minx + maxx
            ELSE divider[1][2] = miny + maxy /\ divider[2][2] = miny + maxy

\* C25: the stride of the forced subsample is ceil(n / max_points) + 1 for a
\* ring of n > max_points >= 1 coordinates.
C25_StrideIsCeilingPlusOne ==
    coords # <<>> =>
        step = (Len(coords) + max_points - 1) \div max_points + 1

\* C30: the ring the forced subsample builds, and the polygon constructor
\* accepts, has at most max_points coordinates.
C30_SubsampleWithinBudget ==
    (reduced_coords # <<>> /\ ~PolygonRaises(reduced_coords))
        => Len(reduced_coords) <= max_points

\* the propositions hold this leaf after the geo_polygon leaf
HasLeaf(relation, attribute, value) ==
    \E k \in 2..Len(propositions) :
        propositions[k] = [relation |-> relation, attribute |-> attribute, value |-> value]

\* C27: the propositions are the geo_polygon leaf followed by leaves for the
\* attributes: a greater_than_equals leaf for every min bound supplied, a
\* less_than_equals leaf for every max bound supplied (both for an attribute
\* that carries both), an equals leaf for every other value.
C27_LeafForEveryBound ==
    propositions # <<>> =>
        /\ propositions[1].relation = "geo_polygon"
        /\ \A i \in 1..Len(attributes) :
             LET attribute == attributes[i][1]
                 value == attributes[i][2]
             IN  /\ (value.is_dict /\ value.min # None)
                        => HasLeaf("greater_than_equals", attribute, value.min)
                 /\ (value.is_dict /\ value.max # None)
                        => HasLeaf("less_than_equals", attribute, value.max)
                 /\ ~(value.is_dict /\ (value.min # None \/ value.max # None))
                        => HasLeaf("equals", attribute, value)

\* C28: with a single caller the counter stays within 0..request_limit, and
\* an HTTP request is sent only from a state where it is below request_limit.
C28_CounterWithinLimit ==
    /\ 0 <= request_counter
    /\ request_counter <= request_limit
    /\ pc = "send" => request_counter < request_limit

\* the counter has reached the limit and the gate has let the next request
\* through after its reset
C28_Witness_SendAfterFullWindow ==
    /\ pc = "send"
    /\ request_counter = 0
    /\ Len(sent_times) >= request_limit

\* cursor fetches of the retrieval in progress: those answered, and the one
\* under way
FetchesStarted ==
    Len(pages) + (IF method = "GET" /\ pc \in {"check", "send", "retry_wait", "ret"}
                  THEN 1 ELSE 0)

\* C29: a retrieval makes at most target_count cursor fetches: every answered
\* fetch but the last has added at least one record, and results_retrieved
\* is the length of the accumulated list throughout.
C29_FetchesBoundedByTarget ==
    InRetrieval =>
        /\ results_retrieved = Len(all_results)
        /\ FetchesStarted <= target_count
        /\ \A i \in 1..(Len(pages) - 1) : Len(pages[i]) >= 1

\* a retrieval that needed as many fetches as its target, one record each
C29_Witness_OneRecordPerFetch ==
    /\ InRetrieval
    /\ outcome = "returned"
    /\ target_count = MaxTotal
    /\ Len(pages) = target_count
    /\ Len(result) = target_count

====
